---- MODULE Spec2Model ----
(***************************************************************************)
(* Model of xdp::AieProfileCTWriter                                        *)
(* (src/profile/plugin/aie_profile/ve2/aie_profile_ct_writer.cpp).         *)
(*                                                                         *)
(* A uint64_t is four 16-bit words, least significant first, so that <<,   *)
(* | and + are the operations of the C++ type and the carry out of bit 63  *)
(* is lost.  Text (file names, marker indexes, formatted addresses) is a   *)
(* sequence of characters or digits; std::stoi and the hex formatting are  *)
(* computed digit by digit.                                                *)
(***************************************************************************)
EXTENDS Integers, Sequences, FiniteSets, TLC

\* ------------------------------------------------------------------ bounds

\* Largest number of entries below the working directory.
MaxFiles == 2
\* Largest number of counter slots the static-info store reports.
MaxCounters == 2
\* Largest number of calculateCounterAddress calls followed in SpecAddr.
MaxCalls == 3

\* ------------------------------------------------------- program constants

\* Width of uint64_t.
U64Bits == 64
\* Largest int (std::stoi's range, the range of asmId, ucNumber, colStart).
INT_MAX == 2147483647
\* std::setw(10) in formatAddress.
AddrWidth == 10
\* Each counter register is 4 bytes apart.
CounterStride == 4
\* ucNumber = 4 * asmId, colStart = asmId * 4.
ColumnsPerFile == 4
\* colEnd = colStart + 3.
ColEndOffset == 3

\* Per-module register base offsets.  aie_profile_ct_writer.h declares them;
\* the values here are 0x37520, 0x11020, 0x91020 and 0x31020.  What is
\* checked below needs only that each is below 2^31.
CORE_MODULE_BASE_OFFSET == 226592
MEMORY_MODULE_BASE_OFFSET == 69664
MEM_TILE_BASE_OFFSET == 594976
SHIM_TILE_BASE_OFFSET == 200736

\* ------------------------------------------------------------------- state

VARIABLES
  \* AieProfileCTWriter's fields, set by the constructor.
  columnShift, rowShift,
  \* The collaborators: the files below the working directory, the counters of
  \* the static-info store, and whether the output file can be created.
  fs, counterStore, outOpenable,
  \* generate(): its position, its locals and what it returned.
  pc, asmFiles, allCounters, hasTimestamps, result, stages, scanFault,
  \* The CT file in the working directory.
  ctFile,
  \* Which call of generate() this is, and how the first one ended.
  runNo, firstOutcome,
  \* Calls of calculateCounterAddress and formatAddress on the object.
  numCalls, lastCall, formatted

writerVars == <<columnShift, rowShift>>
envVars == <<fs, counterStore, outOpenable>>
runVars == <<pc, asmFiles, allCounters, hasTimestamps, result, stages, scanFault>>
addrVars == <<numCalls, lastCall, formatted>>
vars == <<writerVars, envVars, runVars, ctFile, runNo, firstOutcome, addrVars>>

\* ------------------------------------------------------ 64-bit arithmetic

\* A uint64_t is held as four 16-bit words, least significant first.
WordIdx == 1..(U64Bits \div 16)
WordBase == 2 ^ 16

\* static_cast<uint64_t>(n) for 0 <= n <= INT_MAX.
U64FromNat(n) == [k \in WordIdx |-> IF k = 1 THEN n % WordBase
                                    ELSE IF k = 2 THEN n \div WordBase
                                    ELSE 0]

U64Word(a, k) == IF k \in WordIdx THEN a[k] ELSE 0

\* a << s on uint64_t, 0 <= s < 64 (bits shifted past bit 63 are lost).
U64Shl(a, s) ==
  LET q == s \div 16
      r == s % 16
  IN  [k \in WordIdx |->
         ((U64Word(a, k - q) * (2 ^ r)) % WordBase)
           + ((U64Word(a, k - q - 1) * (2 ^ r)) \div WordBase)]

\* x | y on two words.
RECURSIVE WordOr(_, _)
WordOr(x, y) ==
  IF x = 0 THEN y
  ELSE IF y = 0 THEN x
  ELSE (IF x % 2 = 1 \/ y % 2 = 1 THEN 1 ELSE 0) + 2 * WordOr(x \div 2, y \div 2)

\* a | b on uint64_t.
U64Or(a, b) == [k \in WordIdx |-> WordOr(a[k], b[k])]

\* The carry into word k of a + b.
RECURSIVE U64Carry(_, _, _)
U64Carry(a, b, k) ==
  IF k = 1 THEN 0 ELSE (a[k - 1] + b[k - 1] + U64Carry(a, b, k - 1)) \div WordBase

\* a + b on uint64_t (modulo 2^64: the carry out of the top word is lost).
U64Add(a, b) == [k \in WordIdx |-> (a[k] + b[k] + U64Carry(a, b, k)) % WordBase]

\* ------------------------------------------------------- address computing

\* Module strings the static-info store uses, and one it does not.
Modules == {"aie", "aie_memory", "memory_tile", "interface_tile", "unknown_type"}

getModuleBaseOffset(module) ==
  IF module = "aie" THEN U64FromNat(CORE_MODULE_BASE_OFFSET)
  ELSE IF module = "aie_memory" THEN U64FromNat(MEMORY_MODULE_BASE_OFFSET)
  ELSE IF module = "memory_tile" THEN U64FromNat(MEM_TILE_BASE_OFFSET)
  ELSE IF module = "interface_tile" THEN U64FromNat(SHIM_TILE_BASE_OFFSET)
  ELSE U64FromNat(CORE_MODULE_BASE_OFFSET)

\* A slip: the counter index is added without the 4-byte register stride.
calculateCounterAddressNoStride(column, row, counterNumber, module) ==
  LET tileAddress == U64Or(U64Shl(U64FromNat(column), columnShift),
                           U64Shl(U64FromNat(row), rowShift))
  IN  U64Add(U64Add(tileAddress, getModuleBaseOffset(module)),
             U64FromNat(counterNumber))

calculateCounterAddress(column, row, counterNumber, module) ==
  LET tileAddress == U64Or(U64Shl(U64FromNat(column), columnShift),
                           U64Shl(U64FromNat(row), rowShift))
      baseOffset == getModuleBaseOffset(module)
      counterOffset == U64FromNat(counterNumber * CounterStride)
  IN  U64Add(U64Add(tileAddress, baseOffset), counterOffset)

\* ------------------------------------------------------- address formatting

HexChars == <<"0", "1", "2", "3", "4", "5", "6", "7",
              "8", "9", "a", "b", "c", "d", "e", "f">>

\* The value of hex digit k (k = 0 is the least significant) of a uint64_t.
Nibble(a, k) == (a[(k \div 4) + 1] \div (16 ^ (k % 4))) % 16

\* Number of hex digits operator<< prints for a under std::hex (at least one).
RECURSIVE HexLen(_, _)
HexLen(a, k) == IF k = 0 THEN 1
                ELSE IF Nibble(a, k) # 0 THEN k + 1
                ELSE HexLen(a, k - 1)

\* The digits of a, most significant first, without leading zeros.
HexDigits(a) ==
  LET n == HexLen(a, (U64Bits \div 4) - 1)
  IN  [i \in 1..n |-> HexChars[Nibble(a, n - i) + 1]]

\* std::setfill('0') << std::setw(w): pads on the left, never truncates.
PadLeft(text, w) ==
  IF Len(text) >= w THEN text
  ELSE [i \in 1..(w - Len(text)) |-> "0"] \o text

\* A slip: the field is cut to its ten low digits instead of only padded.
formatAddressTruncating(address) ==
  <<"0", "x">> \o [i \in 1..AddrWidth |-> HexChars[Nibble(address, AddrWidth - i) + 1]]

formatAddress(address) == <<"0", "x">> \o PadLeft(HexDigits(address), AddrWidth)


\* --------------------------------------------------------------- std::stoi

RECURSIVE StoiFrom(_, _, _)
StoiFrom(digits, i, acc) ==
  IF i > Len(digits) THEN [ok |-> TRUE, value |-> acc]
  ELSE IF acc > (INT_MAX - digits[i]) \div 10 THEN [ok |-> FALSE, value |-> 0]
  ELSE StoiFrom(digits, i + 1, acc * 10 + digits[i])

\* std::stoi on a run of decimal digits: the value, or ok = FALSE where it
\* throws std::out_of_range.
stoi(digits) == StoiFrom(digits, 1, 0)

\* ------------------------------------------------------------ the file tree

\* A directory entry is named by its directory and its file name; the file
\* name is a stem, a run of digits and an extension.
EntryName(dir, stem, digits, ext) ==
  [dir |-> dir, stem |-> stem, digits |-> digits, ext |-> ext]

ControlName(dir, digits) == EntryName(dir, "aie_runtime_control", digits, ".asm")

\* Lines of a control file: the text before the digits, and the digits.
Line(text, digits) == [text |-> text, digits |-> digits]

\* The letters of a line's text in upper case, white space dropped.
FoldCase(text) ==
  IF text \in {"SAVE_TIMESTAMPS", "save_timestamps ", "  Save_Timestamps",
               "SAVE_TIMESTAMPS "}
    THEN "SAVE_TIMESTAMPS"
  ELSE text

NoMarkerLine == Line("END_JOB", <<>>)
\* 99999999999 does not fit an int.
HugeIndex == <<9, 9, 9, 9, 9, 9, 9, 9, 9, 9, 9>>

Content(regular, readable, lines) ==
  [regular |-> regular, readable |-> readable, lines |-> lines]

Unreadable == Content(TRUE, FALSE, <<Line("SAVE_TIMESTAMPS", <<>>)>>)
NoMarkers == Content(TRUE, TRUE, <<NoMarkerLine>>)
MarkersAt1And3 == Content(TRUE, TRUE, <<Line("SAVE_TIMESTAMPS", <<>>), NoMarkerLine,
                                        Line("save_timestamps ", <<7>>)>>)
MarkerAt2 == Content(TRUE, TRUE, <<NoMarkerLine, Line("  Save_Timestamps", <<1, 2>>)>>)
MarkerThenHugeIndex == Content(TRUE, TRUE, <<Line("SAVE_TIMESTAMPS", <<>>),
                                             Line("SAVE_TIMESTAMPS ", HugeIndex)>>)
\* A directory: not a regular file.
Directory == Content(FALSE, FALSE, <<>>)

\* 2^30: 4 * 1073741824 does not fit an int.
OverflowId == <<1, 0, 7, 3, 7, 4, 1, 8, 2, 4>>
\* 2^32: does not fit an int.
HugeId == <<4, 2, 9, 4, 9, 6, 7, 2, 9, 6>>

\* The entries a file tree is drawn from, each with the contents it may have:
\* two control files of tile group 0 in different directories, one of tile
\* group 1, one whose id overflows 4 * id, one whose id overflows std::stoi,
\* a file without an id and a directory named like a control file.
EntryContents ==
  [n \in { ControlName("a", <<0>>), ControlName("b", <<0>>), ControlName("a", <<1>>),
           ControlName("a", OverflowId), ControlName("a", HugeId),
           ControlName("a", <<>>), ControlName("d", <<7>>) } |->
     IF n = ControlName("a", <<0>>)
       THEN {Unreadable, NoMarkers, MarkersAt1And3, MarkerThenHugeIndex}
     ELSE IF n = ControlName("b", <<0>>) THEN {MarkersAt1And3, MarkerAt2}
     ELSE IF n = ControlName("a", <<1>>) THEN {NoMarkers, MarkerAt2}
     ELSE IF n = ControlName("a", OverflowId) THEN {MarkerAt2}
     ELSE IF n = ControlName("d", <<7>>) THEN {Directory}
     ELSE {NoMarkers}]

EntryNames == DOMAIN EntryContents

\* Every file tree of at most MaxFiles entries: a function from entry names
\* (paths are unique) to contents.
FileTrees ==
  UNION { { t \in [names -> UNION {EntryContents[n] : n \in names}] :
              \A n \in names : t[n] \in EntryContents[n] } :
          names \in { S \in SUBSET EntryNames : Cardinality(S) <= MaxFiles } }

\* std::regex_match(filename, R"(aie_runtime_control(\d+)\.asm)").
MatchesFilenamePattern(name) ==
  name.stem = "aie_runtime_control" /\ Len(name.digits) >= 1 /\ name.ext = ".asm"

\* ------------------------------------------------------------ findASMFiles

\* 4 * asmId fits an int.
FitsTimesFour(asmId) == asmId <= INT_MAX \div ColumnsPerFile

\* 4 * asmId as the two's complement int of a build that wraps.
WrapTimesFour(asmId) ==
  LET r == asmId % (2 ^ 30)
  IN  IF r < 2 ^ 29 THEN ColumnsPerFile * r ELSE ColumnsPerFile * (r - 2 ^ 30)

\* A slip: the range is one column too wide.
ASMFileInfoWide(name, asmId) ==
  LET c == IF FitsTimesFour(asmId) THEN asmId * ColumnsPerFile ELSE WrapTimesFour(asmId)
  IN  [filename |-> name, asmId |-> asmId, ucNumber |-> c,
       colStart |-> c, colEnd |-> c + ColEndOffset + 1,
       timestamps |-> <<>>, counters |-> <<>>]

\* The ASMFileInfo pushed for a matching file (signed overflow wrapping).
ASMFileInfo(name, asmId) ==
  LET uc == IF FitsTimesFour(asmId) THEN ColumnsPerFile * asmId ELSE WrapTimesFour(asmId)
      cs == IF FitsTimesFour(asmId) THEN asmId * ColumnsPerFile ELSE WrapTimesFour(asmId)
  IN  [filename |-> name, asmId |-> asmId, ucNumber |-> uc,
       colStart |-> cs, colEnd |-> cs + ColEndOffset,
       timestamps |-> <<>>, counters |-> <<>>]

\* The loop over the directory iterator from entry i of the enumeration order
\* to entry n: the infos pushed, until std::stoi throws (the catch ends the
\* loop) or the entries end.
RECURSIVE ScanFrom(_, _, _)
ScanFrom(order, i, n) ==
  IF i > n THEN <<>>
  ELSE LET name == order[i]
       IN  IF ~fs[name].regular \/ ~MatchesFilenamePattern(name)
             THEN ScanFrom(order, i + 1, n)
           ELSE IF ~stoi(name.digits).ok THEN <<>>
           ELSE <<ASMFileInfo(name, stoi(name.digits).value)>>
                  \o ScanFrom(order, i + 1, n)

\* The orders a directory iterator may enumerate a set of entries in.
Orders(S) ==
  { o \in [1..Cardinality(S) -> S] : \A i, j \in DOMAIN o : i # j => o[i] # o[j] }

\* A slip: no sort at all.
SortedByAsmIdUnsorted(files) == TRUE

\* What std::sort with the comparator a.asmId < b.asmId guarantees.
SortedByAsmId(files) ==
  \A i, j \in DOMAIN files : i < j => ~(files[j].asmId < files[i].asmId)

\* The results std::sort may leave for a vector: its permutations in which no
\* element is before one that compares less (the order of equal elements is
\* unspecified).
SortResults(pushed) ==
  { [i \in DOMAIN pushed |-> pushed[o[i]]] : o \in Orders(DOMAIN pushed) }

\* Whether the multiplications of a pushed info overflowed.
Overflowed(files) == \E i \in DOMAIN files : ~FitsTimesFour(files[i].asmId)


\* ------------------------------------------------------ parseSaveTimestamps

\* std::regex_search(line, R"(\s*SAVE_TIMESTAMPS\s*(\d*))", icase).
MatchesTimestampPattern(line) == FoldCase(line.text) = "SAVE_TIMESTAMPS"

\* The loop over the lines from line i: the markers found, or ok = FALSE
\* where std::stoi throws.
RECURSIVE ParseFrom(_, _)
ParseFrom(lines, i) ==
  IF i > Len(lines) THEN [ok |-> TRUE, timestamps |-> <<>>]
  ELSE IF ~MatchesTimestampPattern(lines[i]) THEN ParseFrom(lines, i + 1)
  ELSE IF lines[i].digits # <<>> /\ ~stoi(lines[i].digits).ok
         THEN [ok |-> FALSE, timestamps |-> <<>>]
  ELSE LET rest == ParseFrom(lines, i + 1)
           info == [lineNumber |-> i,
                    optionalIndex |-> IF lines[i].digits # <<>>
                                        THEN stoi(lines[i].digits).value ELSE -1]
       IN  [ok |-> rest.ok,
            timestamps |-> IF rest.ok THEN <<info>> \o rest.timestamps ELSE <<>>]

parseSaveTimestamps(filepath) ==
  IF ~fs[filepath].readable THEN [ok |-> TRUE, timestamps |-> <<>>]
  ELSE ParseFrom(fs[filepath].lines, 1)

\* ---------------------------------------------------- getConfiguredCounters

\* What getAIECounter returns: a counter, or a null pointer.
AIECounter(column, row, counterNumber, module) ==
  [present |-> TRUE, column |-> column, row |-> row,
   counterNumber |-> counterNumber, module |-> module]

NullCounter == [present |-> FALSE, column |-> 0, row |-> 0,
                counterNumber |-> 0, module |-> ""]

\* A null entry, a counter of column 0 and one of column 5.
StoreEntries ==
  { NullCounter, AIECounter(0, 0, 0, "aie"), AIECounter(5, 1, 1, "unknown_type") }

CounterStores == UNION { [1..n -> StoreEntries] : n \in 0..MaxCounters }

CTCounterInfo(c) ==
  [column |-> c.column, row |-> c.row, counterNumber |-> c.counterNumber,
   module |-> c.module,
   address |-> calculateCounterAddress(c.column, c.row, c.counterNumber, c.module)]

RECURSIVE CountersFrom(_)
CountersFrom(i) ==
  IF i > Len(counterStore) THEN <<>>
  ELSE IF ~counterStore[i].present THEN CountersFrom(i + 1)
  ELSE <<CTCounterInfo(counterStore[i])>> \o CountersFrom(i + 1)

getConfiguredCounters == CountersFrom(1)

\* --------------------------------------------------- filterCountersByColumn

InColumns(counter, colStart, colEnd) ==
  counter.column >= colStart /\ counter.column <= colEnd

\* A slip: the upper end of the range is not tested.
filterCountersByColumnNoEnd(counters, colStart, colEnd) ==
  SelectSeq(counters, LAMBDA c : c.column >= colStart)

filterCountersByColumn(counters, colStart, colEnd) ==
  SelectSeq(counters, LAMBDA c : InColumns(c, colStart, colEnd))

\* -------------------------------------------------------------- writeCTFile

\* fs::path(filename).filename(): the path without its directory.
Basename(name) == [stem |-> name.stem, digits |-> name.digits, ext |-> name.ext]

HeaderBlock == [kind |-> "header"]
EndBlock == [kind |-> "end"]

BeginBlock(counters) ==
  [kind |-> "begin",
   counter_metadata |->
     [i \in DOMAIN counters |->
        [column |-> counters[i].column, row |-> counters[i].row,
         counter |-> counters[i].counterNumber, module |-> counters[i].module,
         address |-> formatAddress(counters[i].address)]]]

ProbeBlock(asmFile) ==
  [kind |-> "probe", basename |-> Basename(asmFile.filename),
   colStart |-> asmFile.colStart, colEnd |-> asmFile.colEnd,
   uc |-> asmFile.ucNumber,
   lines |-> [i \in DOMAIN asmFile.timestamps |-> asmFile.timestamps[i].lineNumber],
   reads |-> [i \in DOMAIN asmFile.counters |->
                [var |-> i - 1, reg |-> formatAddress(asmFile.counters[i].address)]]]

\* A slip: a probe block for every file that has markers.
EmitsProbeForMarkers(asmFile) == asmFile.timestamps # <<>>

\* The test of the loop over the files: neither list is empty.
EmitsProbe(asmFile) == ~(asmFile.timestamps = <<>> \/ asmFile.counters = <<>>)

RECURSIVE ProbeBlocksFrom(_, _)
ProbeBlocksFrom(files, i) ==
  IF i > Len(files) THEN <<>>
  ELSE IF ~EmitsProbe(files[i]) THEN ProbeBlocksFrom(files, i + 1)
  ELSE <<ProbeBlock(files[i])>> \o ProbeBlocksFrom(files, i + 1)

\* The text written once the output file is open.
CTFileText(files, counters) ==
  <<HeaderBlock, BeginBlock(counters)>> \o ProbeBlocksFrom(files, 1) \o <<EndBlock>>


\* ------------------------------------------------------------------ generate

NoOutcome == [result |-> "none", ctFile |-> <<>>]
NoCall == [called |-> FALSE, column |-> 0, row |-> 0, counterNumber |-> 0,
           module |-> "", address |-> U64FromNat(0)]

\* The shifts of the AIE configuration metadata a design is run with.
PipelineShifts == { <<25, 20>> }

\* Shifts the metadata may hold (column shift, row shift), and the uint8_t
\* arguments the address methods are called with.
AddrShifts == { <<0, 0>>, <<25, 20>>, <<32, 32>>, <<33, 20>>, <<20, 63>> }
AddrColumns == {0, 1, 255}
AddrRows == {0, 1, 255}
AddrCounterNumbers == {0, 255}

Init ==
  /\ \E shifts \in PipelineShifts : columnShift = shifts[1] /\ rowShift = shifts[2]
  /\ fs \in FileTrees
  /\ counterStore \in CounterStores
  /\ outOpenable \in BOOLEAN
  /\ pc = "step1"
  /\ asmFiles = <<>>
  /\ allCounters = <<>>
  /\ hasTimestamps = FALSE
  /\ result = "none"
  /\ stages = <<>>
  /\ scanFault = FALSE
  /\ ctFile = <<>>
  /\ runNo = 1
  /\ firstOutcome = NoOutcome
  /\ numCalls = 0
  /\ lastCall = NoCall
  /\ formatted = <<>>

\* The object constructed and generate() not called: only the address
\* methods are.
InitAddr ==
  /\ \E shifts \in AddrShifts : columnShift = shifts[1] /\ rowShift = shifts[2]
  /\ fs = <<>>
  /\ counterStore = <<>>
  /\ outOpenable = TRUE
  /\ pc = "idle"
  /\ asmFiles = <<>>
  /\ allCounters = <<>>
  /\ hasTimestamps = FALSE
  /\ result = "none"
  /\ stages = <<>>
  /\ scanFault = FALSE
  /\ ctFile = <<>>
  /\ runNo = 1
  /\ firstOutcome = NoOutcome
  /\ numCalls = 0
  /\ lastCall = NoCall
  /\ formatted = <<>>

Return(value) == pc' = "returned" /\ result' = value

\* Step 1: findASMFiles and the test of its result.  The directory iterator
\* enumerates the entries in some order and may fail after any number of
\* them; the catch keeps what was pushed.  Where 4 * asmId overflows, a build
\* that traps on signed overflow ends the process.
Step1_FindASMFiles ==
  /\ pc = "step1"
  /\ \E order \in Orders(DOMAIN fs), seen \in 0..Cardinality(DOMAIN fs), traps \in BOOLEAN :
       LET pushed == ScanFrom(order, 1, seen)
       IN  /\ scanFault' = (scanFault \/ seen < Cardinality(DOMAIN fs))
           /\ stages' = Append(stages, "findASMFiles")
           /\ IF Overflowed(pushed) /\ traps
                THEN /\ pc' = "crashed"
                     /\ UNCHANGED <<asmFiles, result>>
                ELSE \E sorted \in SortResults(pushed) :
                       /\ SortedByAsmId(sorted)
                       /\ asmFiles' = sorted
                       /\ IF sorted = <<>> THEN Return("false")
                          ELSE pc' = "step2" /\ UNCHANGED result
  /\ UNCHANGED <<writerVars, envVars, allCounters, hasTimestamps, ctFile,
                 runNo, firstOutcome, addrVars>>

\* Step 2: getConfiguredCounters and the test of its result.
Step2_GetConfiguredCounters ==
  /\ pc = "step2"
  /\ allCounters' = getConfiguredCounters
  /\ stages' = Append(stages, "getConfiguredCounters")
  /\ IF allCounters' = <<>> THEN Return("false")
     ELSE pc' = "step3" /\ UNCHANGED result
  /\ UNCHANGED <<writerVars, envVars, asmFiles, hasTimestamps, scanFault, ctFile,
                 runNo, firstOutcome, addrVars>>

\* Step 3: the loop over the files and the test of hasTimestamps.  An
\* exception of std::stoi in parseSaveTimestamps is caught nowhere: it leaves
\* generate.
Step3_ParseAndFilter ==
  /\ pc = "step3"
  /\ stages' = Append(stages, "parseSaveTimestamps")
  /\ LET parsed == [i \in DOMAIN asmFiles |-> parseSaveTimestamps(asmFiles[i].filename)]
     IN  IF \E i \in DOMAIN parsed : ~parsed[i].ok
           THEN /\ pc' = "threw"
                /\ UNCHANGED <<asmFiles, hasTimestamps, result>>
         ELSE /\ asmFiles' =
                   [i \in DOMAIN asmFiles |->
                      [asmFiles[i] EXCEPT
                         !.timestamps = parsed[i].timestamps,
                         !.counters = filterCountersByColumn(allCounters,
                                        asmFiles[i].colStart, asmFiles[i].colEnd)]]
              /\ hasTimestamps' = \E i \in DOMAIN parsed : parsed[i].timestamps # <<>>
              /\ IF ~hasTimestamps' THEN Return("false")
                 ELSE pc' = "step4" /\ UNCHANGED result
  /\ UNCHANGED <<writerVars, envVars, allCounters, scanFault, ctFile,
                 runNo, firstOutcome, addrVars>>

\* Step 4: writeCTFile.
Step4_WriteCTFile ==
  /\ pc = "step4"
  /\ stages' = Append(stages, "writeCTFile")
  /\ IF ~outOpenable
       THEN Return("false") /\ UNCHANGED ctFile
     ELSE ctFile' = CTFileText(asmFiles, allCounters) /\ Return("true")
  /\ UNCHANGED <<writerVars, envVars, asmFiles, allCounters, hasTimestamps,
                 scanFault, runNo, firstOutcome, addrVars>>

Next ==
  \/ Step1_FindASMFiles
  \/ Step2_GetConfiguredCounters
  \/ Step3_ParseAndFilter
  \/ Step4_WriteCTFile

Spec == Init /\ [][Next]_vars

\* A second call of generate() on the same object, with the file tree and the
\* counter store as they were: the CT file of the first call is still there.
GenerateAgain ==
  /\ pc \in {"returned", "threw"}
  /\ runNo = 1
  /\ runNo' = 2
  /\ firstOutcome' = [result |-> IF pc = "threw" THEN "exception" ELSE result,
                      ctFile |-> ctFile]
  /\ pc' = "step1"
  /\ asmFiles' = <<>>
  /\ allCounters' = <<>>
  /\ hasTimestamps' = FALSE
  /\ result' = "none"
  /\ stages' = <<>>
  /\ UNCHANGED <<writerVars, envVars, scanFault, ctFile, addrVars>>

NextTwoRuns ==
  \/ Step1_FindASMFiles
  \/ Step2_GetConfiguredCounters
  \/ Step3_ParseAndFilter
  \/ Step4_WriteCTFile
  \/ GenerateAgain

SpecTwoRuns == Init /\ [][NextTwoRuns]_vars


\* ------------------------------------------------- calls of address methods

CallCalculateCounterAddress ==
  /\ pc = "idle"
  /\ numCalls < MaxCalls
  /\ \E column \in AddrColumns, row \in AddrRows,
        counterNumber \in AddrCounterNumbers, module \in Modules :
       lastCall' = [called |-> TRUE, column |-> column, row |-> row,
                    counterNumber |-> counterNumber, module |-> module,
                    address |-> calculateCounterAddress(column, row,
                                                        counterNumber, module)]
  /\ numCalls' = numCalls + 1
  /\ formatted' = <<>>
  /\ UNCHANGED <<writerVars, envVars, runVars, ctFile, runNo, firstOutcome>>

CallFormatAddress ==
  /\ pc = "idle"
  /\ lastCall.called
  /\ formatted = <<>>
  /\ formatted' = formatAddress(lastCall.address)
  /\ UNCHANGED <<writerVars, envVars, runVars, ctFile, runNo, firstOutcome,
                 numCalls, lastCall>>

NextAddr ==
  \/ CallCalculateCounterAddress
  \/ CallFormatAddress

SpecAddr == InitAddr /\ [][NextAddr]_vars


\* ------------------------------------------- the address formula, on bits

\* The same uint64_t operations on sequences of 64 bits, least significant
\* first: what the formulas below compare the computed address with.
BitIdx == 1..U64Bits

BitsFromNat(n) ==
  [i \in BitIdx |-> IF i <= 31 THEN (n \div (2 ^ (i - 1))) % 2 ELSE 0]

BitsShl(a, s) == [i \in BitIdx |-> IF i - s >= 1 THEN a[i - s] ELSE 0]

BitsOr(a, b) == [i \in BitIdx |-> IF a[i] + b[i] > 0 THEN 1 ELSE 0]

RECURSIVE BitsAddFrom(_, _, _, _)
BitsAddFrom(a, b, i, carry) ==
  IF i > U64Bits THEN <<>>
  ELSE <<(a[i] + b[i] + carry) % 2>>
         \o BitsAddFrom(a, b, i + 1, (a[i] + b[i] + carry) \div 2)

BitsAdd(a, b) == BitsAddFrom(a, b, 1, 0)

\* The bits of a uint64_t held as words.
BitsOf(a) == [i \in BitIdx |-> (a[((i - 1) \div 16) + 1] \div (2 ^ ((i - 1) % 16))) % 2]

BaseOffsetOf(module) ==
  IF module = "aie_memory" THEN MEMORY_MODULE_BASE_OFFSET
  ELSE IF module = "memory_tile" THEN MEM_TILE_BASE_OFFSET
  ELSE IF module = "interface_tile" THEN SHIM_TILE_BASE_OFFSET
  ELSE CORE_MODULE_BASE_OFFSET

\* ((column << columnShift) | (row << rowShift)) + baseOffset(module)
\*   + counterIndex * 4, modulo 2^64.
FormulaAddress(column, row, counterIndex, module) ==
  BitsAdd(BitsAdd(BitsOr(BitsShl(BitsFromNat(column), columnShift),
                         BitsShl(BitsFromNat(row), rowShift)),
                  BitsFromNat(BaseOffsetOf(module))),
          BitsFromNat(counterIndex * 4))

\* C2: every address calculateCounterAddress returns is
\* ((column << columnShift) | (row << rowShift)) + baseOffset(module)
\* + counterIndex * 4 in 64-bit unsigned arithmetic, whatever calls came
\* before it: it is a function of its arguments and the two shifts alone.
C2_AddressIsFormula ==
  lastCall.called =>
    BitsOf(lastCall.address) =
      FormulaAddress(lastCall.column, lastCall.row, lastCall.counterNumber,
                     lastCall.module)

\* A third call, of column 255 and counter 255, on an object whose shifts
\* are 25 and 20.
C2_Witness ==
  /\ numCalls >= 3
  /\ lastCall.called
  /\ lastCall.column = 255
  /\ lastCall.counterNumber = 255
  /\ columnShift = 25

\* ----------------------------------------------------- the formatted text

HexDigitChars == { HexChars[i] : i \in DOMAIN HexChars }

\* The address is below 2^40.
FitsTenDigits(a) == a[4] = 0 /\ a[3] < 256

\* The value of the digit character c.
HexValue(c) == CHOOSE v \in 0..15 : HexChars[v + 1] = c

\* The digits of the text are those of the address, most significant first,
\* after zeros only.
TextIsAddress(text, a) ==
  \A i \in 3..Len(text) : HexValue(text[i]) = Nibble(a, Len(text) - i)

\* C8 as claimed: the text of every computed address is 0x and exactly 10
\* lower-case hex digits.
C8_ExactlyTenDigits ==
  formatted # <<>> =>
    /\ Len(formatted) = 2 + AddrWidth
    /\ formatted[1] = "0" /\ formatted[2] = "x"
    /\ \A i \in 3..Len(formatted) : formatted[i] \in HexDigitChars

\* C8 amended: the text is 0x and the lower-case hex digits of the address,
\* zero-padded to at least 10 digits and never cut: exactly 10 digits when
\* the address is below 2^40, which it is whenever both shifts are at most
\* 32, and more than 10 otherwise.
C8_AtLeastTenDigits ==
  formatted # <<>> =>
    /\ formatted[1] = "0" /\ formatted[2] = "x"
    /\ \A i \in 3..Len(formatted) : formatted[i] \in HexDigitChars
    /\ Len(formatted) >= 2 + AddrWidth
    /\ Len(formatted) <= 2 + (U64Bits \div 4)
    /\ TextIsAddress(formatted, lastCall.address)
    /\ (Len(formatted) = 2 + AddrWidth) <=> FitsTenDigits(lastCall.address)
    /\ (columnShift <= 32 /\ rowShift <= 32) => FitsTenDigits(lastCall.address)
    /\ \A k \in 0..((U64Bits \div 4) - 1) :
         k >= Len(formatted) - 2 => Nibble(lastCall.address, k) = 0

\* An address of 2^40 or more has been formatted.
C8_Witness ==
  /\ formatted # <<>>
  /\ ~FitsTenDigits(lastCall.address)
  /\ Len(formatted) > 2 + AddrWidth


\* ------------------------------------------------ what the claims speak of

Returned == pc = "returned"
Ended == pc \in {"returned", "threw", "crashed"}
\* generate() returned true: the CT file is the one it wrote.
Written == pc = "returned" /\ result = "true"
\* findASMFiles has returned.
Discovered == pc \in {"step2", "step3", "step4", "returned", "threw"}
\* The loop of step 3 has finished.
Associated == pc = "step4" \/ (pc = "returned" /\ Len(stages) >= 3)

\* The numbers of the lines of a file that hold the directive, in file order;
\* none for a file that cannot be opened.
RECURSIVE MarkerLinesFrom(_, _)
MarkerLinesFrom(lines, i) ==
  IF i > Len(lines) THEN <<>>
  ELSE IF MatchesTimestampPattern(lines[i]) THEN <<i>> \o MarkerLinesFrom(lines, i + 1)
  ELSE MarkerLinesFrom(lines, i + 1)

MarkerLines(name) ==
  IF fs[name].readable THEN MarkerLinesFrom(fs[name].lines, 1) ELSE <<>>

\* The counters of the store that are not null, in the order of the store.
Enumerated == SelectSeq(counterStore, LAMBDA c : c.present)

\* The positions in Enumerated of the counters of columns lo..hi, ascending.
RECURSIVE IndexesInColumns(_, _, _)
IndexesInColumns(k, lo, hi) ==
  IF k > Len(Enumerated) THEN <<>>
  ELSE IF Enumerated[k].column >= lo /\ Enumerated[k].column <= hi
         THEN <<k>> \o IndexesInColumns(k + 1, lo, hi)
  ELSE IndexesInColumns(k + 1, lo, hi)

\* A discovered file has a marker and a counter of its columns.
HasMarkerAndCounter(f) ==
  /\ MarkerLines(f.filename) # <<>>
  /\ IndexesInColumns(1, f.colStart, f.colEnd) # <<>>

Probes == SelectSeq(ctFile, LAMBDA b : b.kind = "probe")
Metadata == ctFile[2].counter_metadata

RangesDisjoint(f, g) == f.colEnd < g.colStart \/ g.colEnd < f.colStart

\* The positions in allCounters of the counters a file lists.
Lists(f, k) == \E m \in DOMAIN f.counters : f.counters[m] = allCounters[k]

\* ------------------------------------------------------------------ claims

\* C1: generate() returns false with no discovered file, with files but no
\* enumerated counter, and with files and counters but no marker in any
\* file, each without reaching a later stage; and it returns true, having
\* written a non-empty CT file, whenever a discovered file has a marker and
\* an associated counter and the output file can be opened.
C1_GateSequence ==
  /\ (Returned /\ asmFiles = <<>>) =>
       (result = "false" /\ stages = <<"findASMFiles">>)
  /\ (Returned /\ asmFiles # <<>> /\ Enumerated = <<>>) =>
       (result = "false" /\ stages = <<"findASMFiles", "getConfiguredCounters">>)
  /\ (Returned /\ asmFiles # <<>> /\ Enumerated # <<>>
        /\ \A i \in DOMAIN asmFiles : MarkerLines(asmFiles[i].filename) = <<>>) =>
       (result = "false"
          /\ stages = <<"findASMFiles", "getConfiguredCounters", "parseSaveTimestamps">>)
  /\ (Ended /\ outOpenable
        /\ \E i \in DOMAIN asmFiles : HasMarkerAndCounter(asmFiles[i])) =>
       (Returned /\ result = "true" /\ ctFile # <<>>)
  /\ (Returned /\ result = "false" /\ Len(stages) < 4) => ctFile = <<>>

\* C3 as claimed: the column ranges of two different discovered files never
\* overlap, and after association every counter is listed by at most one file.
C3_RangesNeverOverlap ==
  /\ Discovered =>
       \A i, j \in DOMAIN asmFiles :
         i # j => RangesDisjoint(asmFiles[i], asmFiles[j])
  /\ Associated =>
       \A k \in DOMAIN allCounters :
         Cardinality({i \in DOMAIN asmFiles : Lists(asmFiles[i], k)}) <= 1

\* C3 amended: every discovered file has a range of 4 columns starting at a
\* multiple of 4 (4N..4N+3 for tile-group id N when 4N fits an int), so two
\* ranges are equal or disjoint: disjoint for two different ids whose 4N
\* fits an int, equal for files of one id.  After association a counter is
\* listed only by files of one and the same range.
C3_RangesEqualOrDisjoint ==
  /\ Discovered =>
       \A i, j \in DOMAIN asmFiles :
         LET f == asmFiles[i]
             g == asmFiles[j]
         IN  /\ f.colEnd = f.colStart + 3
             /\ f.colStart % 4 = 0
             /\ FitsTimesFour(f.asmId) =>
                  (f.colStart = 4 * f.asmId /\ f.colEnd = 4 * f.asmId + 3)
             /\ RangesDisjoint(f, g) \/ (f.colStart = g.colStart /\ f.colEnd = g.colEnd)
             /\ f.asmId = g.asmId => f.colStart = g.colStart
             /\ (f.asmId # g.asmId /\ FitsTimesFour(f.asmId) /\ FitsTimesFour(g.asmId)) =>
                  RangesDisjoint(f, g)
  /\ Associated =>
       \A k \in DOMAIN allCounters : \A i, j \in DOMAIN asmFiles :
         /\ Lists(asmFiles[i], k) <=>
              InColumns(allCounters[k], asmFiles[i].colStart, asmFiles[i].colEnd)
         /\ (Lists(asmFiles[i], k) /\ Lists(asmFiles[j], k)) =>
              asmFiles[i].colStart = asmFiles[j].colStart

\* Two files of different ids, each with counters of its own, have been
\* associated.
C3_Witness ==
  /\ Associated
  /\ \E i, j \in DOMAIN asmFiles :
       /\ asmFiles[i].asmId # asmFiles[j].asmId
       /\ asmFiles[i].counters # <<>>
       /\ asmFiles[j].counters # <<>>
       /\ FitsTimesFour(asmFiles[i].asmId) /\ FitsTimesFour(asmFiles[j].asmId)

\* C4 as claimed: the list findASMFiles returns is strictly ascending by
\* tile-group id.
C4_StrictlyAscending ==
  Discovered =>
    \A i \in 1..(Len(asmFiles) - 1) : asmFiles[i].asmId < asmFiles[i + 1].asmId

\* C4 amended: the list findASMFiles returns is ascending by tile-group id,
\* with files of one id (the same name in two directories) next to each
\* other; each file carries the id its name spells.
C4_Ascending ==
  Discovered =>
    /\ \A i \in 1..(Len(asmFiles) - 1) : asmFiles[i].asmId <= asmFiles[i + 1].asmId
    /\ \A i \in DOMAIN asmFiles :
         /\ asmFiles[i].filename \in DOMAIN fs
         /\ stoi(asmFiles[i].filename.digits).ok
         /\ stoi(asmFiles[i].filename.digits).value = asmFiles[i].asmId
    /\ \A i, j \in DOMAIN asmFiles : i # j => asmFiles[i].filename # asmFiles[j].filename

\* findASMFiles has returned two files of one id, next to each other.
C4_Witness ==
  /\ Discovered
  /\ Len(asmFiles) = 2
  /\ asmFiles[1].asmId = asmFiles[2].asmId
  /\ asmFiles[1].filename # asmFiles[2].filename


\* C5: two calls of generate() on the same file tree and counter store that
\* both write a CT file write the same one, whatever order the directory
\* iterator enumerated the entries in (no traversal fault in either call).
C5_SecondRunIdentical ==
  (runNo = 2 /\ Written /\ firstOutcome.result = "true" /\ ~scanFault) =>
    firstOutcome.ctFile = ctFile

\* The files whose probe block the CT file holds, in the order of the list.
Emitting == SelectSeq(asmFiles, LAMBDA f : HasMarkerAndCounter(f))

\* The register texts of the counters at the given positions of Enumerated,
\* as the counter-metadata list gives them.
RegistersAt(indexes) == [m \in DOMAIN indexes |-> Metadata[indexes[m]].address]

\* C6: in a CT file generate() wrote, the counter-metadata list has one
\* entry per non-null counter of the store, in the order of the store, and
\* each probe block reads exactly the counters of its file's columns: a
\* counter of a column outside every discovered file's range is in the
\* metadata list and is read by no probe block.
C6_MetadataAllProbesInRange ==
  Written =>
    /\ Len(Metadata) = Len(Enumerated)
    /\ \A k \in DOMAIN Metadata :
         /\ Metadata[k].column = Enumerated[k].column
         /\ Metadata[k].row = Enumerated[k].row
         /\ Metadata[k].counter = Enumerated[k].counterNumber
         /\ Metadata[k].module = Enumerated[k].module
         /\ Metadata[k].address =
              formatAddress(calculateCounterAddress(Enumerated[k].column,
                Enumerated[k].row, Enumerated[k].counterNumber, Enumerated[k].module))
    /\ \A p \in DOMAIN Probes :
         /\ \E i \in DOMAIN asmFiles :
              /\ Basename(asmFiles[i].filename) = Probes[p].basename
              /\ asmFiles[i].colStart = Probes[p].colStart
              /\ asmFiles[i].colEnd = Probes[p].colEnd
         /\ [m \in DOMAIN Probes[p].reads |-> Probes[p].reads[m].reg]
              = RegistersAt(IndexesInColumns(1, Probes[p].colStart, Probes[p].colEnd))

\* A CT file was written with a probe block, for a store holding a counter
\* of a column outside the range of every discovered file.
C6_Witness ==
  /\ Written
  /\ Probes # <<>>
  /\ \E k \in DOMAIN Enumerated : \A i \in DOMAIN asmFiles :
       ~InColumns(Enumerated[k], asmFiles[i].colStart, asmFiles[i].colEnd)

\* C7: no exception leaves generate(): it ends by returning true or false.
C7_NoExceptionLeaves == pc # "threw"

\* C9: the CT file holds a probe block for exactly the discovered files with
\* a marker and an associated counter, in the order of the list; each block
\* names all marker lines of its file in increasing order and the
\* controller 4 * id, and reads the file's counters as ctr_0, ctr_1, ... in
\* the order of the store.
C9_ProbeBlocks ==
  Written =>
    /\ Len(Probes) = Len(Emitting)
    /\ \A p \in DOMAIN Probes :
         LET f == Emitting[p]
             b == Probes[p]
             indexes == IndexesInColumns(1, f.colStart, f.colEnd)
         IN  /\ b.basename = Basename(f.filename)
             /\ b.lines = MarkerLines(f.filename)
             /\ \A m \in 1..(Len(b.lines) - 1) : b.lines[m] < b.lines[m + 1]
             /\ b.uc % 4 = 0
             /\ b.uc \div 4 = stoi(f.filename.digits).value
             /\ Len(b.reads) = Len(indexes)
             /\ \A m \in DOMAIN b.reads :
                  /\ b.reads[m].var = m - 1
                  /\ b.reads[m].reg = Metadata[indexes[m]].address

\* C10 as claimed: a CT file generate() wrote holds a probe block.
C10_AlwaysAProbe == Written => Probes # <<>>

\* C10 amended: when generate() returns true, some discovered file has a
\* marker and the store has a counter, but not always for one file: the CT
\* file holds a probe block exactly when some discovered file has both a
\* marker and a counter of its columns.
C10_ProbeIffCommonFile ==
  Written =>
    /\ \E i \in DOMAIN asmFiles : MarkerLines(asmFiles[i].filename) # <<>>
    /\ Enumerated # <<>>
    /\ (Probes # <<>>) <=> (\E i \in DOMAIN asmFiles : HasMarkerAndCounter(asmFiles[i]))

\* generate() returned true and its CT file holds no probe block.
C10_Witness == Written /\ Probes = <<>>

====
